---- MODULE Spec2Model ----
(***************************************************************************)
(* The cats resource of the NestJS webinar application.                    *)
(*                                                                         *)
(* CatsController (POST /cats, GET /cats) delegates to CatsService, which  *)
(* delegates to a TypeORM Repository<CatEntity> on a PostgreSQL table      *)
(* `cats`.  The walkthrough also shows an earlier CatsService that keeps   *)
(* the cats in a process-local array; it is run here side by side with the *)
(* repository-backed service on the same requests.                         *)
(*                                                                         *)
(* Requests are handled one at a time.  A handler is async: the controller *)
(* calls the service, the service calls the repository, and the two        *)
(* promises resolve in turn; each of these is one step.                    *)
(*                                                                         *)
(* A JavaScript property that is absent (undefined) and a column that is   *)
(* NULL are both written with the No... value of the field.                *)
(***************************************************************************)
EXTENDS Integers, Sequences, FiniteSets, TLC

\* ---------------------------------------------------------------- bounds
MaxCreates == 3

\* ------------------------------------------------------------ the values
NoId == 0
NoDate == 0
NoColor == "none"
SeqStart == 1
ClockStart == 10

CallerIds == {NoId, 1}
CallerDates == {NoDate, 1}

\* The name and color of the bodies posted: one with a color, one without.
Candidates == {[name |-> "Tom", color |-> "black"],
               [name |-> "Felix", color |-> NoColor]}

NoCat == [id |-> NoId, name |-> "", color |-> NoColor, created |-> NoDate]

\* A request body typed Cat; nothing checks it at run time, so the caller
\* decides whether id and created are there.
Bodies ==
  {[id |-> i, name |-> c.name, color |-> c.color, created |-> d] :
     c \in Candidates, i \in CallerIds, d \in CallerDates}

\* ------------------------------------------------- outcomes of a promise
Nothing == [kind |-> "none", cat |-> NoCat, list |-> <<>>, err |-> "none"]
OkCat(c) == [kind |-> "cat", cat |-> c, list |-> <<>>, err |-> "none"]
OkList(l) == [kind |-> "list", cat |-> NoCat, list |-> l, err |-> "none"]
Rejected(e) == [kind |-> "error", cat |-> NoCat, list |-> <<>>, err |-> e]

VARIABLES
  pc,          \* "idle" | "repo" | "svc" | "ctrl": position of the request
  req,         \* the request the controller received: [op, body]
  svcArg,      \* the argument CatsController passed to CatsService
  table,       \* rows of the PostgreSQL table `cats`
  seq,         \* next value of the id sequence of the table
  now,         \* the database clock
  dcats,       \* the field `cats` of the repository-backed CatsService
  cats,        \* the array of the in-memory CatsService
  repoRet,     \* outcome of repository.save / repository.find
  svcRet,      \* outcome of the promise CatsService returned
  resp,        \* outcome of the promise CatsController returned
  volResp,     \* what the in-memory CatsService returned for the request
  repoCalls,   \* repository calls made for the current request
  tableBefore, \* the table when the current request arrived
  okLog,       \* bodies of the create calls that have succeeded
  prev         \* the request answered before the current one, and the answer

vars == <<pc, req, svcArg, table, seq, now, dcats, cats, repoRet, svcRet,
          resp, volResp, repoCalls, tableBefore, okLog, prev>>

\* ------------------------------------------------------------- helpers
Ids(t) == {t[i].id : i \in 1..Len(t)}

RowIndex(t, id) == CHOOSE i \in 1..Len(t) : t[i].id = id

Perms(n) == {p \in [1..n -> 1..n] : \A i, j \in 1..n : p[i] = p[j] => i = j}

\* ------------------------------------------------ in-memory CatsService
Volatile_create(arr, cat) == [cats |-> Append(arr, cat), ret |-> cat]

Volatile_findAll(arr) == arr

\* ------------------------------------------- CatEntity on PostgreSQL
NoPrimaryKey(t, id) == TRUE

\* The primary key constraint of column id.
PrimaryKeyFree(t, id) == id \notin Ids(t)

UpdateRowWithCreated(row, cat) ==
  [row EXCEPT !.name = cat.name,
              !.color = IF cat.color = NoColor THEN row.color ELSE cat.color,
              !.created = IF cat.created = NoDate THEN row.created ELSE cat.created]

\* UPDATE of the row: undefined properties are skipped, and column created
\* is declared update: false.
UpdateRow(row, cat) ==
  [row EXCEPT !.name = cat.name,
              !.color = IF cat.color = NoColor THEN row.color ELSE cat.color]

\* INSERT: a column whose value is undefined takes its DEFAULT, that is
\* nextval of the sequence for id and now() for created.
InsertRow(cat, nextval, clock) ==
  [id |-> IF cat.id = NoId THEN nextval ELSE cat.id,
   name |-> cat.name,
   color |-> cat.color,
   created |-> IF cat.created = NoDate THEN clock ELSE cat.created]

InsertResultUnmerged(cat, row) == cat

\* The entity save resolves to after an INSERT: the object passed in, with
\* the generated and defaulted columns (RETURNING id, created) merged in.
InsertResult(cat, row) == [cat EXCEPT !.id = row.id, !.created = row.created]

\* The entity save resolves to after an UPDATE: the object passed in.
UpdateResult(cat, row) == cat

\* repository.save(cat): UPDATE when cat carries the id of an existing row,
\* INSERT otherwise.  nextval is consumed even when the INSERT is rejected.
Save(t, s, clock, cat) ==
  IF cat.id # NoId /\ cat.id \in Ids(t)
  THEN LET i == RowIndex(t, cat.id)
           row == UpdateRow(t[i], cat)
       IN [table |-> [t EXCEPT ![i] = row], seq |-> s,
           ret |-> OkCat(UpdateResult(cat, row))]
  ELSE LET row == InsertRow(cat, s, clock)
           s2 == IF cat.id = NoId THEN s + 1 ELSE s
       IN IF PrimaryKeyFree(t, row.id)
          THEN [table |-> Append(t, row), seq |-> s2,
                ret |-> OkCat(InsertResult(cat, row))]
          ELSE [table |-> t, seq |-> s2, ret |-> Rejected("constraint")]

\* repository.find(): every row, in an order the backend chooses.
Find(t) == {[i \in 1..Len(t) |-> t[p[i]]] : p \in Perms(Len(t))}

\* ------------------------------------------------------- CatsService
SwallowError(r) == IF r.kind = "error" THEN OkList(<<>>) ELSE r

CatsService_result(r) == r

\* ---------------------------------------------------- CatsController
CatsController_arg(cat) == cat

MissingReturn(r) == Nothing

CatsController_result(r) == r

\* ------------------------------------------------------------ the steps
Init ==
  /\ pc = "idle"
  /\ req = [op |-> "none", body |-> NoCat]
  /\ svcArg = NoCat
  /\ table = <<>>
  /\ seq = SeqStart
  /\ now = ClockStart
  /\ dcats = <<>>
  /\ cats = <<>>
  /\ repoRet = Nothing
  /\ svcRet = Nothing
  /\ resp = Nothing
  /\ volResp = Nothing
  /\ repoCalls = 0
  /\ tableBefore = <<>>
  /\ okLog = <<>>
  /\ prev = [req |-> [op |-> "none", body |-> NoCat], resp |-> Nothing,
             tableBefore |-> <<>>]

\* POST /cats: CatsController.create(cat) calls catsService.create(cat).
CatsController_create ==
  /\ pc = "idle"
  /\ Len(cats) < MaxCreates
  /\ \E body \in Bodies :
       /\ req' = [op |-> "create", body |-> body]
       /\ svcArg' = CatsController_arg(body)
       /\ cats' = Volatile_create(cats, body).cats
       /\ volResp' = OkCat(Volatile_create(cats, body).ret)
  /\ now' = now + 1
  /\ tableBefore' = table
  /\ repoCalls' = 0
  /\ repoRet' = Nothing
  /\ svcRet' = Nothing
  /\ resp' = Nothing
  /\ pc' = "repo"
  /\ prev' = [req |-> req, resp |-> resp, tableBefore |-> tableBefore]
  /\ UNCHANGED <<table, seq, dcats, okLog>>

\* GET /cats: CatsController.findAll() calls catsService.findAll().
CatsController_findAll ==
  /\ pc = "idle"
  /\ req' = [op |-> "findAll", body |-> NoCat]
  /\ svcArg' = NoCat
  /\ volResp' = OkList(Volatile_findAll(cats))
  /\ tableBefore' = table
  /\ repoCalls' = 0
  /\ repoRet' = Nothing
  /\ svcRet' = Nothing
  /\ resp' = Nothing
  /\ pc' = "repo"
  /\ prev' = [req |-> req, resp |-> resp, tableBefore |-> tableBefore]
  /\ UNCHANGED <<table, seq, now, dcats, cats, okLog>>

\* CatsService.create: this.repository.save(cat) runs on the database.
Repository_save ==
  /\ pc = "repo"
  /\ req.op = "create"
  /\ LET r == Save(table, seq, now, svcArg)
     IN /\ table' = r.table
        /\ seq' = r.seq
        /\ repoRet' = r.ret
        /\ okLog' = IF r.ret.kind = "cat" THEN Append(okLog, svcArg) ELSE okLog
  /\ repoCalls' = repoCalls + 1
  /\ pc' = "svc"
  /\ UNCHANGED <<req, svcArg, now, dcats, cats, svcRet, resp, volResp, tableBefore,
                 prev>>

\* this.repository.save(cat) cannot reach the database.
Repository_save_unreachable ==
  /\ pc = "repo"
  /\ req.op = "create"
  /\ repoRet' = Rejected("unreachable")
  /\ repoCalls' = repoCalls + 1
  /\ pc' = "svc"
  /\ UNCHANGED <<req, svcArg, table, seq, now, dcats, cats, svcRet, resp,
                 volResp, tableBefore, okLog, prev>>

\* CatsService.findAll: this.repository.find() runs on the database.
Repository_find ==
  /\ pc = "repo"
  /\ req.op = "findAll"
  /\ \E l \in Find(table) : repoRet' = OkList(l)
  /\ repoCalls' = repoCalls + 1
  /\ pc' = "svc"
  /\ UNCHANGED <<req, svcArg, table, seq, now, dcats, cats, svcRet, resp,
                 volResp, tableBefore, okLog, prev>>

\* this.repository.find() cannot reach the database.
Repository_find_unreachable ==
  /\ pc = "repo"
  /\ req.op = "findAll"
  /\ repoRet' = Rejected("unreachable")
  /\ repoCalls' = repoCalls + 1
  /\ pc' = "svc"
  /\ UNCHANGED <<req, svcArg, table, seq, now, dcats, cats, svcRet, resp,
                 volResp, tableBefore, okLog, prev>>

\* The promise of CatsService.create / findAll settles with the
\* repository's outcome.
CatsService_return ==
  /\ pc = "svc"
  /\ svcRet' = CatsService_result(repoRet)
  /\ pc' = "ctrl"
  /\ UNCHANGED <<req, svcArg, table, seq, now, dcats, cats, repoRet, resp,
                 volResp, repoCalls, tableBefore, okLog, prev>>

\* The promise of CatsController.create / findAll settles with the
\* service's outcome.
CatsController_return ==
  /\ pc = "ctrl"
  /\ resp' = CatsController_result(svcRet)
  /\ pc' = "idle"
  /\ UNCHANGED <<req, svcArg, table, seq, now, dcats, cats, repoRet, svcRet,
                 volResp, repoCalls, tableBefore, okLog, prev>>

Next ==
  \/ CatsController_create
  \/ CatsController_findAll
  \/ Repository_save
  \/ Repository_save_unreachable
  \/ Repository_find
  \/ Repository_find_unreachable
  \/ CatsService_return
  \/ CatsController_return

Spec == Init /\ [][Next]_vars

\* ------------------------------------------------------------ properties
\* A create has been answered with a Cat.
CreateAnswered == pc = "idle" /\ req.op = "create" /\ resp.kind = "cat"

\* A findAll has been answered with a list.
FindAllAnswered == pc = "idle" /\ req.op = "findAll" /\ resp.kind = "list"

\* The record matches the input fields of the create call.
Matches(rec, body) == rec.name = body.name /\ rec.color = body.color

\* Which of the fields id and created a Cat carries (name is always there,
\* color is optional).
CatShape(c) == <<c.id # NoId, c.created # NoDate>>

SameShape(a, b) ==
  /\ a.kind = b.kind
  /\ a.kind = "cat" => CatShape(a.cat) = CatShape(b.cat)
  /\ a.kind = "list" =>
       /\ Len(a.list) = Len(b.list)
       /\ \A i \in 1..Len(a.list) : CatShape(a.list[i]) = CatShape(b.list[i])

\* C1: the Cat a create returns has a non-null id that no Cat stored before
\* the call has, and a created value that is not the one the caller sent.
C1_FreshIdServerCreated ==
  CreateAnswered =>
    /\ resp.cat.id # NoId
    /\ resp.cat.id \notin Ids(tableBefore)
    /\ req.body.created # NoDate => resp.cat.created # req.body.created

\* C2: a findAll returns exactly as many records as creates have succeeded,
\* and the records match the inputs of these creates one to one.
C2_FindAllReturnsEveryCreate ==
  FindAllAnswered =>
    /\ Len(resp.list) = Len(okLog)
    /\ \E p \in Perms(Len(okLog)) :
         \A i \in 1..Len(okLog) : Matches(resp.list[i], okLog[p[i]])

\* C3: when the body carries a created field, neither the returned Cat nor
\* the stored row has that value as its created.
C3_CallerCreatedIgnored ==
  (CreateAnswered /\ req.body.created # NoDate) =>
    /\ resp.cat.created # req.body.created
    /\ \A i \in 1..Len(table) :
         table[i].id = resp.cat.id => table[i].created # req.body.created

\* C4: no two stored Cats have the same id, whatever their name and color.
C4_IdsUnique ==
  \A i, j \in 1..Len(table) : i # j => table[i].id # table[j].id

\* C4 witness: two creates with the same name and color have both stored a
\* row.
C4_Witness ==
  /\ Len(table) = 2
  /\ Len(okLog) = 2
  /\ Matches(table[1], table[2])
  /\ Matches(okLog[1], okLog[2])

\* C5: once the repository has run for a create, every Cat stored before
\* the call is still there with its name and color, and a create that
\* succeeded has added one record.
C5_NeverUpdated ==
  (pc \in {"svc", "ctrl", "idle"} /\ req.op = "create") =>
    /\ \A i \in 1..Len(tableBefore) :
         \E j \in 1..Len(table) :
           /\ table[j].id = tableBefore[i].id
           /\ table[j].name = tableBefore[i].name
           /\ table[j].color = tableBefore[i].color
    /\ repoRet.kind = "cat" => Len(table) = Len(tableBefore) + 1

\* C6: no step changes the created value of a stored Cat.
C6_CreatedImmutable ==
  [][\A i \in 1..Len(table) : \A j \in 1..Len(table') :
       table'[j].id = table[i].id => table'[j].created = table[i].created]_vars

\* C6 witness: save has updated a row from a body that carries another
\* created value than the row's.
C6_Witness ==
  /\ pc = "svc"
  /\ req.op = "create"
  /\ repoRet.kind = "cat"
  /\ svcArg.created # NoDate
  /\ \E i \in 1..Len(tableBefore) :
       /\ tableBefore[i].id = svcArg.id
       /\ tableBefore[i].created # svcArg.created
       /\ table[i].name # tableBefore[i].name

\* C7: the in-memory service and the repository-backed service answer the
\* same request with responses of the same shape.
C7_SameShape ==
  (pc = "idle" /\ resp.kind \in {"cat", "list"}) => SameShape(resp, volResp)

\* C8: the controller hands the body to the service as it is, returns what
\* the service returned as it is, and its own steps leave the store alone.
C8_PassThrough ==
  [][/\ (pc = "idle" /\ pc' # "idle") =>
          /\ svcArg' = req'.body
          /\ table' = table /\ seq' = seq /\ dcats' = dcats
     /\ (pc = "ctrl" /\ pc' = "idle") =>
          /\ resp' = svcRet
          /\ table' = table /\ seq' = seq /\ dcats' = dcats]_vars

\* C8 witness: create and findAll have both been answered through the
\* controller.
C8_Witness ==
  /\ FindAllAnswered
  /\ resp.list # <<>>
  /\ prev.req.op = "create"
  /\ prev.resp.kind = "cat"

C10_FailurePropagates ==
  (pc \in {"svc", "ctrl", "idle"} /\ repoRet.kind = "error") =>
    /\ repoCalls = 1
    /\ dcats = <<>>
    /\ pc \in {"ctrl", "idle"} => svcRet = repoRet
    /\ pc = "idle" =>
         /\ resp = repoRet
         /\ resp.cat = NoCat
         /\ resp.list = <<>>

\* C10 witness: a create rejected by the primary key constraint has been
\* answered.
C10_Witness ==
  /\ pc = "idle"
  /\ req.op = "create"
  /\ resp.kind = "error"
  /\ resp.err = "constraint"

====
